---- MODULE Spec2Model ----
(***************************************************************************)
(* A model of grovers-visualizer: the circuit builder (circuit.py,         *)
(* gates.py), the effect of its gate sequences on a state vector, the      *)
(* QubitState value type (state.py), the helpers of utils.py and ui.py,    *)
(* the display loop of GroverVisualizer (visualization.py) and the QFT     *)
(* circuit builder (qft.py).                                               *)
(*                                                                         *)
(* A bit-string (a Python str) is a tuple of one-character strings.        *)
(* A gate is a record [name, qubits]; a circuit is a sequence of gates.    *)
(* A state vector is a record [v, s]: amplitude j is v[j] / sqrt(2)^s,     *)
(* with v a function 0..2^n-1 -> Int, which represents exactly every       *)
(* amplitude the gates X, Z, CZ, H and MCX produce from integer inputs.    *)
(***************************************************************************)
EXTENDS Integers, Sequences, FiniteSets, TLC

VARIABLES
    target,      \* grover_search / oracle: the target bit-string
    iterations,  \* grover_search: the argument, <<>> for None, <<k>> for int k
    iters,       \* grover_search: the local `iterations` after line 16-17
    loopi,       \* grover_search: number of loop bodies executed
    qc,          \* the QuantumCircuit: sequence of gates appended so far
    pc,          \* position in grover_search
    svs,         \* simulation: the state vectors, initial one first
    ops,         \* simulation: ops[i] took svs[i] to svs[i+1]
    heap,        \* the QubitState objects constructed so far
    last,        \* the last call: [op, args, raised, result, printed]
    dpg,         \* environment: the optional UI library
    pyproject,   \* environment: the pyproject.toml file
    gen,         \* all_states: the generator [variant, n, k, yielded, raised]
    is_running,  \* GroverVisualizer.is_running
    quit_it,     \* the iteration in whose pause 'q' was first handled, -1 before
    nkeys,       \* events dispatched to _on_key so far
    n_qubits,    \* create_manual_qft_circuit: the argument
    qi,          \* create_manual_qft_circuit: loop variable i
    qj           \* create_manual_qft_circuit: loop variable j

cvars == <<target, iterations, iters, loopi, qc, pc>>
svars == <<svs, ops>>
uvars == <<heap, last, dpg, pyproject>>
xvars == <<gen, is_running, quit_it, nkeys, n_qubits, qi, qj>>
vars == <<cvars, svars, uvars, xvars>>

\* a call record: `raised` is "none" or the exception type that propagates
Call(op, args, raised, result, printed) ==
    [op |-> op, args |-> args, raised |-> raised, result |-> result,
     printed |-> printed]

NoCall == Call("none", <<>>, "none", <<>>, FALSE)

\* the parts of the state a specification does not use
IdleCircuit ==
    target = <<>> /\ iterations = <<>> /\ iters = 0 /\ loopi = 0 /\ qc = <<>>
IdleSim == svs = <<>> /\ ops = <<>>
IdleUtil == heap = <<>> /\ last = NoCall /\ dpg = "installed" /\ pyproject = "ok"
IdleGen == gen = <<>>
IdleVis == is_running = TRUE /\ quit_it = -1 /\ nkeys = 0
IdleQft == n_qubits = 0 /\ qi = 0 /\ qj = 0
IdleExtra == IdleGen /\ IdleVis /\ IdleQft

\* -------------------------------------------------------------- bounds
MaxN == 3          \* longest target bit-string
MaxIter == 2       \* largest explicit iteration count
MaxSteps == 3      \* operator applications per simulated run

\* ------------------------------------------------------------ helpers
RECURSIVE Pow2(_)
Pow2(k) == IF k = 0 THEN 1 ELSE 2 * Pow2(k - 1)

Bit(j, q) == (j \div Pow2(q)) % 2

Gate(name, qubits) == [name |-> name, qubits |-> qubits]

\* range(n) as the tuple <<0, ..., n-1>>
Range(n) == [k \in 1..n |-> k - 1]

\* qc.h(range(n)), qc.x(range(n)): one gate per qubit, in order
Layer(name, n) == [k \in 1..n |-> Gate(name, <<k - 1>>)]

BitStrings(n) == [1..n -> {"0", "1"}]

\* ------------------------------------------------------- utils.py, pi
\* floor(pi / 4 * sqrt(2 ** n)) in fixed point: sqrt to three decimals,
\* pi to three decimals (the products stay far from an integer for n <= 11).
RECURSIVE IsqrtBits(_, _, _)
\* largest r with r*r <= x, by bisection on [lo, hi)
IsqrtBits(x, lo, hi) ==
    IF hi - lo <= 1 THEN lo
    ELSE LET mid == (lo + hi) \div 2
         IN  IF mid * mid <= x THEN IsqrtBits(x, mid, hi)
             ELSE IsqrtBits(x, lo, mid)

SqrtMilli(x) == IsqrtBits(x * 1000000, 0, 46341)

optimal_grover_iterations_round(n) ==
    (3141 * SqrtMilli(Pow2(n)) + 2000000) \div 4000000

\* utils.py 16-18: floor(pi / 4 * sqrt(2 ** n_qubits))
optimal_grover_iterations(n) == (3141 * SqrtMilli(Pow2(n))) \div 4000000

\* ----------------------------------------------------------- gates.py
RECURSIVE EncodeFrom(_, _)
\* for i, bit in enumerate(reversed(target_state)): if bit == "0": qc.x(i)
EncodeFrom(t, i) ==
    IF i >= Len(t) THEN <<>>
    ELSE (IF t[Len(t) - i] = "0" THEN <<Gate("x", <<i>>)>> ELSE <<>>)
         \o EncodeFrom(t, i + 1)

RECURSIVE EncodeForward(_, _)
EncodeForward(t, i) ==
    IF i >= Len(t) THEN <<>>
    ELSE (IF t[i + 1] = "0" THEN <<Gate("x", <<i>>)>> ELSE <<>>)
         \o EncodeForward(t, i + 1)

encode_target_state_forward(t) == EncodeForward(t, 0)

encode_target_state(t) == EncodeFrom(t, 0)

apply_phase_inversion(n) ==
    IF n = 1 THEN <<Gate("z", <<0>>)>>
    ELSE IF n = 2 THEN <<Gate("cz", <<0, 1>>)>>
    ELSE <<Gate("h", <<n - 1>>), Gate("mcx", Range(n)), Gate("h", <<n - 1>>)>>

\* --------------------------------------------------------- circuit.py
oracle_no_undo(t) == encode_target_state(t) \o apply_phase_inversion(Len(t))

oracle(t) ==
    encode_target_state(t) \o apply_phase_inversion(Len(t)) \o encode_target_state(t)

diffusion_no_x(n) ==
    Layer("h", n) \o apply_phase_inversion(n) \o Layer("h", n)

diffusion(n) ==
    Layer("h", n) \o Layer("x", n) \o apply_phase_inversion(n)
        \o Layer("x", n) \o Layer("h", n)

NeedsDefaultLe(it) == it = <<>> \/ it[1] <= 0

\* line 16: `iterations is None or iterations < 0`
NeedsDefault(it) == it = <<>> \/ it[1] < 0

IterArgs == {<<>>} \cup {<<k>> : k \in -1..MaxIter}

Targets == UNION {BitStrings(n) : n \in 1..MaxN}

InitCircuit ==
    /\ IdleExtra
    /\ target \in Targets
    /\ iterations \in IterArgs
    /\ iters = 0
    /\ loopi = 0
    /\ qc = <<>>
    /\ pc = "call"
    /\ IdleSim
    /\ IdleUtil

\* lines 11-17: the circuit, the Hadamard layer, the iteration count
GroverSearchEnter ==
    /\ pc = "call"
    /\ qc' = Layer("h", Len(target))
    /\ iters' = IF NeedsDefault(iterations)
                THEN optimal_grover_iterations(Len(target))
                ELSE iterations[1]
    /\ loopi' = 0
    /\ pc' = "loop"
    /\ UNCHANGED <<target, iterations, svars, uvars, xvars>>

GroverSearchIterDiffusionFirst ==
    /\ pc = "loop"
    /\ loopi < iters
    /\ qc' = qc \o diffusion(Len(target)) \o oracle(target)
    /\ loopi' = loopi + 1
    /\ UNCHANGED <<target, iterations, iters, pc, svars, uvars, xvars>>

\* lines 19-21: one pass of the loop body
GroverSearchIter ==
    /\ pc = "loop"
    /\ loopi < iters
    /\ qc' = qc \o oracle(target) \o diffusion(Len(target))
    /\ loopi' = loopi + 1
    /\ UNCHANGED <<target, iterations, iters, pc, svars, uvars, xvars>>

\* lines 23-24: measure all qubits and return
GroverSearchReturn ==
    /\ pc = "loop"
    /\ loopi >= iters
    /\ qc' = qc \o Layer("measure", Len(target))
    /\ pc' = "done"
    /\ UNCHANGED <<target, iterations, iters, loopi, svars, uvars, xvars>>

NextCircuit == GroverSearchEnter \/ GroverSearchIter \/ GroverSearchReturn

SpecCircuit == InitCircuit /\ [][NextCircuit]_vars

\* ------------------------------------------- the gates on a state vector
Dim(sv) == Cardinality(DOMAIN sv.v)

\* Pauli-X on qubit q: swaps the amplitudes of j and j with bit q flipped
GateX(sv, q) ==
    [sv EXCEPT !.v = [j \in DOMAIN sv.v |->
        IF Bit(j, q) = 0 THEN sv.v[j + Pow2(q)] ELSE sv.v[j - Pow2(q)]]]

\* Pauli-Z on qubit q: negates the amplitudes whose bit q is 1
GateZ(sv, q) ==
    [sv EXCEPT !.v = [j \in DOMAIN sv.v |->
        IF Bit(j, q) = 1 THEN -sv.v[j] ELSE sv.v[j]]]

\* controlled-Z on qubits a, b: negates the amplitudes whose bits a and b are 1
GateCZ(sv, a, b) ==
    [sv EXCEPT !.v = [j \in DOMAIN sv.v |->
        IF Bit(j, a) = 1 /\ Bit(j, b) = 1 THEN -sv.v[j] ELSE sv.v[j]]]

\* Hadamard on qubit q: (a, b) -> (a + b, a - b) / sqrt(2)
GateH(sv, q) ==
    [v |-> [j \in DOMAIN sv.v |->
        IF Bit(j, q) = 0 THEN sv.v[j] + sv.v[j + Pow2(q)]
        ELSE sv.v[j - Pow2(q)] - sv.v[j]],
     s |-> sv.s + 1]

\* multi-controlled X: controls qs[1..m-1], target qs[m]
GateMCX(sv, qs) ==
    LET m == Len(qs)
        t == qs[m]
        on(j) == \A k \in 1..(m - 1) : Bit(j, qs[k]) = 1
    IN  [sv EXCEPT !.v = [j \in DOMAIN sv.v |->
            IF on(j)
            THEN (IF Bit(j, t) = 0 THEN sv.v[j + Pow2(t)] ELSE sv.v[j - Pow2(t)])
            ELSE sv.v[j]]]

ApplyGate(sv, g) ==
    CASE g.name = "x" -> GateX(sv, g.qubits[1])
      [] g.name = "z" -> GateZ(sv, g.qubits[1])
      [] g.name = "cz" -> GateCZ(sv, g.qubits[1], g.qubits[2])
      [] g.name = "h" -> GateH(sv, g.qubits[1])
      [] g.name = "mcx" -> GateMCX(sv, g.qubits)

RECURSIVE ApplySeq(_, _)
ApplySeq(sv, gs) ==
    IF gs = <<>> THEN sv ELSE ApplySeq(ApplyGate(sv, Head(gs)), Tail(gs))

\* The unique representation of an amplitude vector: halve v and lower s by
\* two while every entry is even (the zero vector is kept at s = 0).
RECURSIVE Canon(_)
Canon(sv) ==
    IF \A j \in DOMAIN sv.v : sv.v[j] = 0 THEN [v |-> sv.v, s |-> 0]
    ELSE IF sv.s >= 2 /\ \A j \in DOMAIN sv.v : sv.v[j] % 2 = 0
    THEN Canon([v |-> [j \in DOMAIN sv.v |-> sv.v[j] \div 2], s |-> sv.s - 2])
    ELSE sv

Run(sv, gs) == Canon(ApplySeq(sv, gs))

Indices(n) == 0..(Pow2(n) - 1)

\* state.py from_int: format(value, f"0{num_qubits}b"), the label of basis
\* state `value`: most significant bit first
from_int(value, n) == [k \in 1..n |-> IF Bit(value, n - k) = 1 THEN "1" ELSE "0"]

\* the input states of a run on n qubits: every basis state, the uniform
\* superposition H|0..0>, and two vectors with unequal entries of both signs
BasisVec(n, i) == [v |-> [j \in Indices(n) |-> IF j = i THEN 1 ELSE 0], s |-> 0]
UniformVec(n) == [v |-> [j \in Indices(n) |-> 1], s |-> n]
RampVec(n) == [v |-> [j \in Indices(n) |-> j - 1], s |-> 0]
ZigVec(n) == [v |-> [j \in Indices(n) |-> IF j % 2 = 0 THEN j + 1 ELSE -(j \div 2)],
              s |-> 1]
InputVecs(n) ==
    {BasisVec(n, i) : i \in Indices(n)} \cup {UniformVec(n), RampVec(n), ZigVec(n)}

Cur == svs[Len(svs)]

InitSim ==
    /\ IdleExtra
    /\ target \in Targets
    /\ svs \in {<<sv>> : sv \in InputVecs(Len(target))}
    /\ ops = <<>>
    /\ iterations = <<>>
    /\ iters = 0
    /\ loopi = 0
    /\ qc = <<>>
    /\ pc = "sim"
    /\ IdleUtil

\* main.py 214: operation(qc) with oracle, then Statevector.from_instruction
StepOracle ==
    /\ pc = "sim"
    /\ Len(ops) < MaxSteps
    /\ svs' = Append(svs, Run(Cur, oracle(target)))
    /\ ops' = Append(ops, "oracle")
    /\ UNCHANGED <<cvars, uvars, xvars>>

\* main.py 215: operation(qc) with diffusion, then Statevector.from_instruction
StepDiffusion ==
    /\ pc = "sim"
    /\ Len(ops) < MaxSteps
    /\ svs' = Append(svs, Run(Cur, diffusion(Len(target))))
    /\ ops' = Append(ops, "diffusion")
    /\ UNCHANGED <<cvars, uvars, xvars>>

NextSim == StepOracle \/ StepDiffusion

SpecSim == InitSim /\ [][NextSim]_vars

\* --------------------------------------------------------------- C3
\* C3: every oracle step negates the amplitude of exactly the basis state
\* whose label equals the target string and leaves every other amplitude
\* as it was.
FlipTarget(sv, t) ==
    [sv EXCEPT !.v = [j \in DOMAIN sv.v |->
        IF from_int(j, Len(t)) = t THEN -sv.v[j] ELSE sv.v[j]]]

C3_OracleFlipsTarget ==
    \A i \in 1..Len(ops) :
        ops[i] = "oracle" => svs[i + 1] = Canon(FlipTarget(svs[i], target))

\* an oracle has acted on a state whose target amplitude is not zero, for a
\* target that is no palindrome on at least three qubits
C3_Witness ==
    /\ pc = "sim"
    /\ Len(target) >= 3
    /\ target = <<"0", "1", "1">>
    /\ Len(ops) >= 1
    /\ ops[1] = "oracle"
    /\ svs[1].v[3] # 0
    /\ svs[2].v[3] = -svs[1].v[3]

\* --------------------------------------------------------------- C4
\* C4: two oracle steps in a row give back the state before them: every
\* amplitude, hence every sign, is as it was.
C4_OracleSelfInverse ==
    \A i \in 1..(Len(ops) - 1) :
        (ops[i] = "oracle" /\ ops[i + 1] = "oracle") => svs[i + 2] = svs[i]

C4_Witness ==
    /\ pc = "sim"
    /\ Len(ops) >= 2
    /\ ops[1] = "oracle"
    /\ ops[2] = "oracle"
    /\ svs[2] # svs[1]
    /\ svs[3] = svs[1]

\* --------------------------------------------------------------- C5
Sum(sv) ==
    LET RECURSIVE Acc(_)
        Acc(j) == IF j < 0 THEN 0 ELSE sv.v[j] + Acc(j - 1)
    IN  Acc(Dim(sv) - 1)

\* a_j -> 2*mean - a_j, times the dimension N = sqrt(2)^(2n)
InvertAboutMean(sv) ==
    Canon([v |-> [j \in DOMAIN sv.v |-> 2 * Sum(sv) - Dim(sv) * sv.v[j]],
           s |-> sv.s + 2 * Len(target)])

\* a_j -> a_j - 2*mean, times the dimension N
NegInvertAboutMean(sv) ==
    Canon([v |-> [j \in DOMAIN sv.v |-> Dim(sv) * sv.v[j] - 2 * Sum(sv)],
           s |-> sv.s + 2 * Len(target)])

\* C5 as claimed: every diffusion step maps each amplitude a_j to 2*mean - a_j.
C5_DiffusionInvertsAboutMean ==
    \A i \in 1..Len(ops) :
        ops[i] = "diffusion" => svs[i + 1] = InvertAboutMean(svs[i])

\* C5 amended: every diffusion step maps each amplitude a_j to a_j - 2*mean,
\* the inversion about the mean times the global factor -1.
C5_DiffusionNegInversion ==
    \A i \in 1..Len(ops) :
        ops[i] = "diffusion" => svs[i + 1] = NegInvertAboutMean(svs[i])

\* a diffusion has acted on a state with unequal amplitudes and nonzero mean
C5_Witness ==
    /\ pc = "sim"
    /\ Len(target) >= 3
    /\ Len(ops) >= 2
    /\ ops[1] = "oracle"
    /\ ops[2] = "diffusion"
    /\ Sum(svs[2]) # 0
    /\ \E j \in DOMAIN svs[2].v : svs[2].v[j] # svs[2].v[0]
    /\ svs[3] # svs[2]

\* ---------------------------------------------------------- C1, C10
\* k repetitions of the oracle sequence followed by the diffusion sequence
RECURSIVE Blocks(_, _)
Blocks(t, k) ==
    IF k = 0 THEN <<>> ELSE oracle(t) \o diffusion(Len(t)) \o Blocks(t, k - 1)

\* Hadamard layer, k blocks, measurement of every qubit
GroverCircuit(t, k) == Layer("h", Len(t)) \o Blocks(t, k) \o Layer("measure", Len(t))

\* floor(pi/4 * sqrt(2^n)) as the k with 16 k^2 <= pi^2 2^n < 16 (k+1)^2,
\* using 9.8696 < pi^2 < 9.8697
FloorQuarterPiSqrt(n) ==
    CHOOSE k \in 0..IsqrtBits(Pow2(n), 0, Pow2(n) + 1) :
        /\ 160000 * k * k <= 98696 * Pow2(n)
        /\ 160000 * (k + 1) * (k + 1) > 98697 * Pow2(n)

Zeros3 == <<"0", "0", "0">>

\* C1 as claimed: for target "000" and 0 explicit iterations, grover_search
\* derives iterations = 2 and appends exactly 2 oracle+diffusion blocks
\* between the Hadamard layer and the measurement.
C1_ZeroDerivesTwo ==
    (pc = "done" /\ target = Zeros3 /\ iterations = <<0>>)
        => (iters = 2 /\ qc = GroverCircuit(target, 2))

\* C1 amended: for target "000", grover_search derives iterations = 2 and
\* appends exactly 2 blocks when the count is None or negative; with 0
\* explicit iterations it keeps 0 and appends no block between the Hadamard
\* layer and the measurement.
C1_ZeroKeepsZero ==
    (pc = "done" /\ target = Zeros3) =>
        /\ iterations = <<0>> => (iters = 0 /\ qc = GroverCircuit(target, 0))
        /\ (iterations = <<>> \/ iterations = <<-1>>)
               => (iters = 2 /\ qc = GroverCircuit(target, 2))

C1_Witness ==
    /\ pc = "done"
    /\ target = Zeros3
    /\ iterations = <<0>>
    /\ Len(qc) = 6

\* C10: grover_search emits one Hadamard layer, then exactly k blocks of
\* oracle followed by diffusion, then one measurement of all qubits as the
\* last operations, where k is the explicit count when it is >= 0 and
\* floor(pi/4 * sqrt(2^n)) when the count is None or negative; while the loop
\* runs, the circuit is the Hadamard layer and the blocks appended so far.
C10_K == IF iterations = <<>> THEN FloorQuarterPiSqrt(Len(target))
         ELSE IF iterations[1] < 0 THEN FloorQuarterPiSqrt(Len(target))
         ELSE iterations[1]

C10_GroverOrder ==
    /\ pc = "loop" =>
          (loopi <= C10_K /\ qc = Layer("h", Len(target)) \o Blocks(target, loopi))
    /\ pc = "done" => qc = GroverCircuit(target, C10_K)

C10_Witness ==
    /\ pc = "done"
    /\ Len(target) = 3
    /\ iterations = <<2>>
    /\ loopi = 2
    /\ qc[Len(qc)].name = "measure"
    /\ qc[1].name = "h"

\* ----------------------------------------------------------- state.py
MaxLen == 2        \* longest string given to QubitState(...)
MaxObjs == 2       \* QubitState objects kept

\* the characters of the strings tried: the two binary digits and one other
Chars == {"0", "1", "x"}

Strs == UNION {[1..n -> Chars] : n \in 0..MaxLen}

\* Python values: a str, or a QubitState object with its identity
Str(s) == [type |-> "str", id |-> 0, bits |-> s]
Obj(id, s) == [type |-> "QubitState", id |-> id, bits |-> s]

QubitState_valid_any(bits) == \E k \in 1..Len(bits) : bits[k] \in {"0", "1"}

\* line 7: all(b in "01" for b in bits)
QubitState_valid(bits) == \A k \in 1..Len(bits) : bits[k] \in {"0", "1"}

QubitState_eq_identity(self, value) ==
    IF value.type = "QubitState" THEN self.id = value.id ELSE FALSE

\* lines 29-32: __eq__
QubitState_eq(self, value) ==
    IF value.type = "QubitState" THEN self.bits = value.bits ELSE FALSE

\* hash of a str: a function of its characters alone within one process
RECURSIVE StrHash(_)
StrHash(s) ==
    IF s = <<>> THEN 7
    ELSE LET c == s[Len(s)]
             code == IF c = "0" THEN 48 ELSE IF c = "1" THEN 49 ELSE 120
         IN  (31 * StrHash(SubSeq(s, 1, Len(s) - 1)) + code) % 65536

\* lines 35-36: __hash__
QubitState_hash(self) == StrHash(self.bits)

InitState ==
    /\ IdleExtra
    /\ heap = <<>>
    /\ last = NoCall
    /\ dpg = "installed"
    /\ pyproject = "ok"
    /\ pc = "state"
    /\ IdleCircuit
    /\ IdleSim

\* QubitState(bits), lines 6-9
QubitStateInit(bits) ==
    /\ pc = "state"
    /\ IF QubitState_valid(bits)
       THEN /\ Len(heap) < MaxObjs
            /\ heap' = Append(heap, Obj(Len(heap) + 1, bits))
            /\ last' = Call("QubitState", <<bits>>, "none", <<Len(heap) + 1>>, FALSE)
       ELSE /\ heap' = heap
            /\ last' = Call("QubitState", <<bits>>, "ValueError", <<>>, FALSE)
    /\ UNCHANGED <<cvars, svars, dpg, pyproject, xvars>>

\* a == b with a a QubitState and b a QubitState or a str
QubitStateEq(i, value) ==
    /\ pc = "state"
    /\ last' = Call("eq", <<heap[i], value>>, "none",
                    <<QubitState_eq(heap[i], value)>>, FALSE)
    /\ UNCHANGED <<cvars, svars, heap, dpg, pyproject, xvars>>

\* hash(a)
QubitStateHash(i) ==
    /\ pc = "state"
    /\ last' = Call("hash", <<heap[i]>>, "none", <<QubitState_hash(heap[i])>>, FALSE)
    /\ UNCHANGED <<cvars, svars, heap, dpg, pyproject, xvars>>

NextState ==
    \/ \E bits \in Strs : QubitStateInit(bits)
    \/ \E i \in 1..Len(heap) :
          \E value \in {heap[j] : j \in 1..Len(heap)} \cup {Str(heap[i].bits)} :
              QubitStateEq(i, value)
    \/ \E i \in 1..Len(heap) : QubitStateHash(i)

SpecState == InitState /\ [][NextState]_vars

\* --------------------------------------------------------------- C6
\* C6: constructing a QubitState from a string with a character other than
\* '0' or '1' raises ValueError and yields no value, and every QubitState
\* that exists holds only '0' and '1'.
HasOther(bits) == \E k \in 1..Len(bits) : bits[k] # "0" /\ bits[k] # "1"

C6_InvalidRaises ==
    /\ []((last.op = "QubitState" /\ HasOther(last.args[1]))
             => (last.raised = "ValueError" /\ last.result = <<>>))
    /\ [](\A i \in 1..Len(heap) : ~HasOther(heap[i].bits))
    /\ [][(last'.op = "QubitState" /\ HasOther(last'.args[1])) => heap' = heap]_vars

\* a string with a valid first and an invalid second character was refused
C6_Witness ==
    /\ pc = "state"
    /\ last.op = "QubitState"
    /\ last.args[1] = <<"0", "x">>
    /\ last.raised = "ValueError"
    /\ Len(heap) >= 1

\* --------------------------------------------------------------- C7
\* C7: a == b for two QubitStates is true exactly when their bit strings are
\* equal, and any two equal QubitStates have the same hash.
C7_EqByValue ==
    /\ (last.op = "eq" /\ last.args[2].type = "QubitState")
          => (last.result[1] <=> last.args[1].bits = last.args[2].bits)
    /\ \A i, j \in 1..Len(heap) :
          QubitState_eq(heap[i], heap[j])
              => QubitState_hash(heap[i]) = QubitState_hash(heap[j])

\* two distinct objects with the same bits were compared, and two with
\* different bits exist
C7_Witness ==
    /\ pc = "state"
    /\ last.op = "eq"
    /\ last.args[2].type = "QubitState"
    /\ last.args[1].id # last.args[2].id
    /\ last.args[1].bits = last.args[2].bits
    /\ last.args[1].bits # <<>>
    /\ last.result = <<TRUE>>

\* ----------------------------------------------------------- utils.py
is_optimal_iteration_utils(iteration, optimal_iteration) ==
    iteration = optimal_iteration

\* main.py 91-92; never reached with optimal_iteration = 0 (line 99 guards it)
is_optimal_iteration_main(iteration, optimal_iteration) ==
    iteration % optimal_iteration = 0 /\ iteration # 0

is_optimal_iteration(variant, iteration, optimal_iteration) ==
    IF variant = "utils" THEN is_optimal_iteration_utils(iteration, optimal_iteration)
    ELSE is_optimal_iteration_main(iteration, optimal_iteration)

\* `state != target_state` with state a str: str.__ne__ answers only for a
\* str; otherwise the reflected QubitState.__ne__ (object's: not __eq__)
\* decides, and for None the identity comparison does
StrNe(state, value) ==
    IF value.type = "str" THEN state # value.bits
    ELSE IF value.type = "QubitState" THEN ~QubitState_eq(value, Str(state))
    ELSE TRUE

\* utils.py 25-31, main.py 95-101
get_bar_color(variant, state, target_state, iteration, optimal_iteration) ==
    IF StrNe(state, target_state) THEN "skyblue"
    ELSE IF optimal_iteration # 0
            /\ is_optimal_iteration(variant, iteration, optimal_iteration)
    THEN "green"
    ELSE "orange"

\* the target of the plot: a QubitState
InitColor ==
    /\ IdleExtra
    /\ heap \in {<<Obj(1, t)>> : t \in Targets}
    /\ last = NoCall
    /\ dpg = "installed"
    /\ pyproject = "ok"
    /\ pc = "color"
    /\ IdleCircuit
    /\ IdleSim

\* main.py 117-119: one bar of plot_amplitudes_live, its label a str from
\* basis_states, the target the QubitState of the run
GetBarColor(variant, state, iteration, optimal_iteration) ==
    /\ pc = "color"
    /\ last' = Call("get_bar_color",
                    <<variant, state, heap[1], iteration, optimal_iteration>>,
                    "none",
                    <<get_bar_color(variant, state, heap[1], iteration,
                                    optimal_iteration)>>,
                    FALSE)
    /\ UNCHANGED <<cvars, svars, heap, dpg, pyproject, xvars>>

NextColor ==
    \E variant \in {"utils", "main"} :
        \E state \in BitStrings(Len(heap[1].bits)) :
            \E iteration \in 0..MaxIter :
                \E optimal_iteration \in 0..MaxIter :
                    GetBarColor(variant, state, iteration, optimal_iteration)

SpecColor == InitColor /\ [][NextColor]_vars

\* --------------------------------------------------------------- C9
\* C9: get_bar_color with a str label and a QubitState target returns
\* 'skyblue' for every label that differs from the target's bit string, and
\* for the label equal to it 'green' when the optimal count is nonzero and
\* the iteration is optimal, 'orange' otherwise.
C9_Expected(variant, state, tgt, iteration, optimal_iteration) ==
    IF state # tgt.bits THEN "skyblue"
    ELSE IF optimal_iteration # 0
            /\ is_optimal_iteration(variant, iteration, optimal_iteration)
    THEN "green"
    ELSE "orange"

C9_BarColor ==
    last.op = "get_bar_color" =>
        last.result[1] = C9_Expected(last.args[1], last.args[2], last.args[3],
                                     last.args[4], last.args[5])

\* ------------------------------------------- utils.py, ui/__init__.py
MaxQubits == 8     \* largest n given to optimal_grover_iterations

\* find_spec("dearpygui.dearpygui"): a spec, None when the submodule is
\* missing, ModuleNotFoundError when the package dearpygui is missing
DpgStates == {"installed", "no_module", "no_package"}

\* pyproject.toml: not a file; not TOML; no [project] table; `project` not a
\* table; no version key; or a version
PyprojectStates ==
    {"absent", "malformed", "no_project", "project_not_table", "no_version", "ok"}

Ret(value) == [raised |-> "none", value |-> value]
Raise(exc) == [raised |-> exc, value |-> <<>>]

is_dearpygui_available_uncaught(d) ==
    IF d = "no_package" THEN Raise("ModuleNotFoundError") ELSE Ret(<<d = "installed">>)

\* ui/__init__.py 6-10
is_dearpygui_available(d) ==
    IF d = "no_package" THEN Ret(<<FALSE>>) ELSE Ret(<<d = "installed">>)

\* ui/__init__.py 13-20 (variant "ui/__init__.py"), ui.py 13-16 ("ui.py")
run_dpg_ui(variant, d) ==
    LET avail == is_dearpygui_available(d)
    IN  IF avail.raised # "none"
        THEN Call("run_dpg_ui", <<variant>>, avail.raised, <<>>, FALSE)
        ELSE IF ~avail.value[1]
        THEN Call("run_dpg_ui", <<variant>>, "none", <<>>, TRUE)
        ELSE IF variant = "ui.py"
        THEN Call("run_dpg_ui", <<variant>>, "none", <<>>, FALSE)
        ELSE Call("run_dpg_ui", <<variant>>, "none", <<"run_dearpygui_ui">>, FALSE)

\* utils.py 34-44
get_app_version(p) ==
    IF p = "absent" THEN Raise("FileNotFoundError")
    ELSE IF p = "malformed" THEN Raise("TOMLDecodeError")
    ELSE IF p = "project_not_table" THEN Raise("TypeError")
    ELSE IF p \in {"no_project", "no_version"} THEN Raise("KeyError")
    ELSE Ret(<<"version">>)

InitEnv ==
    /\ IdleExtra
    /\ dpg \in DpgStates
    /\ pyproject \in PyprojectStates
    /\ heap = <<>>
    /\ last = NoCall
    /\ pc = "env"
    /\ IdleCircuit
    /\ IdleSim

RunDpgUi(variant) ==
    /\ pc = "env"
    /\ last' = run_dpg_ui(variant, dpg)
    /\ UNCHANGED <<cvars, svars, heap, dpg, pyproject, xvars>>

GetAppVersion ==
    /\ pc = "env"
    /\ LET r == get_app_version(pyproject)
       IN  last' = Call("get_app_version", <<>>, r.raised, r.value, FALSE)
    /\ UNCHANGED <<cvars, svars, heap, dpg, pyproject, xvars>>

OptimalGroverIterations(n) ==
    /\ pc = "env"
    /\ last' = Call("optimal_grover_iterations", <<n>>, "none",
                    <<optimal_grover_iterations(n)>>, FALSE)
    /\ UNCHANGED <<cvars, svars, heap, dpg, pyproject, xvars>>

NextEnv ==
    \/ \E variant \in {"ui.py", "ui/__init__.py"} : RunDpgUi(variant)
    \/ GetAppVersion
    \/ \E n \in 0..MaxQubits : OptimalGroverIterations(n)

SpecEnv == InitEnv /\ [][NextEnv]_vars

\* --------------------------------------------------------------- C2
\* C2 as claimed: optimal_grover_iterations(n) is floor(pi/4 * sqrt(2^n)),
\* with the values n=1 -> 0, n=2 -> 1, n=3 -> 2, n=4 -> 3.
C2_ReferenceValues ==
    last.op = "optimal_grover_iterations" =>
        LET n == last.args[1]
            r == last.result[1]
        IN  /\ r = FloorQuarterPiSqrt(n)
            /\ n = 1 => r = 0
            /\ n = 2 => r = 1
            /\ n = 3 => r = 2
            /\ n = 4 => r = 3

\* C2 amended: optimal_grover_iterations(n) is floor(pi/4 * sqrt(2^n)),
\* with the values n=1 -> 1, n=2 -> 1, n=3 -> 2, n=4 -> 3.
C2_FloorValues ==
    last.op = "optimal_grover_iterations" =>
        LET n == last.args[1]
            r == last.result[1]
        IN  /\ r = FloorQuarterPiSqrt(n)
            /\ n = 1 => r = 1
            /\ n = 2 => r = 1
            /\ n = 3 => r = 2
            /\ n = 4 => r = 3

C2_Witness ==
    /\ pc = "env"
    /\ last.op = "optimal_grover_iterations"
    /\ last.args = <<1>>
    /\ last.result = <<1>>

\* --------------------------------------------------------------- C8
\* the failure modes of the claim: the UI library is missing when run_dpg_ui
\* is called, the version metadata is missing or malformed when
\* get_app_version is called
C8_Failure ==
    \/ last.op = "run_dpg_ui" /\ dpg # "installed"
    \/ last.op = "get_app_version" /\ pyproject # "ok"

\* C8 as claimed: in each of these failure modes the operation returns
\* normally and no error reaches the caller.
C8_NoErrorPropagates == C8_Failure => last.raised = "none"

\* C8 amended: with the UI library missing run_dpg_ui prints a message and
\* returns normally; get_app_version does not degrade: a missing file raises
\* FileNotFoundError, malformed TOML raises the decoder's error, a missing
\* [project] table or version key raises KeyError and a `project` that is no
\* table raises TypeError, each reaching the caller.
C8_UiDegradesVersionRaises ==
    /\ (last.op = "run_dpg_ui" /\ dpg # "installed")
          => (last.raised = "none" /\ last.printed /\ last.result = <<>>)
    /\ last.op = "get_app_version" =>
          /\ pyproject = "absent" => last.raised = "FileNotFoundError"
          /\ pyproject = "malformed" => last.raised = "TOMLDecodeError"
          /\ pyproject \in {"no_project", "no_version"} => last.raised = "KeyError"
          /\ pyproject = "project_not_table" => last.raised = "TypeError"
          /\ pyproject = "ok" => (last.raised = "none" /\ last.result # <<>>)

\* run_dpg_ui has returned after printing, with the package itself missing
C8_Witness ==
    /\ pc = "env"
    /\ last.op = "run_dpg_ui"
    /\ dpg = "no_package"
    /\ pyproject = "no_version"
    /\ last.printed

\* ------------------------------------ utils.py / main.py: all_states
MaxStatesN == 6    \* largest n given to all_states

\* a tuple of ints, as itertools.product((0, 1), repeat=n) yields them
Tuple(items) == [type |-> "tuple", id |-> 0, bits |-> items]

\* element k of product(digits, repeat=n): the last position varies fastest
ProductItem(n, k, zero, one) ==
    [p \in 1..n |-> IF Bit(k, n - p) = 1 THEN one ELSE zero]

\* the argument all_states gives to QubitState for element k:
\* utils.py 12-13 passes the tuple of ints itself,
\* main.py 82-83 passes "".join(bits) of a tuple of one-character strings
AllStatesArg(variant, n, k) ==
    IF variant = "utils" THEN Tuple(ProductItem(n, k, 0, 1))
    ELSE Str(ProductItem(n, k, "0", "1"))

\* state.py 6-9 for a str or a tuple of ints: `b in "01"` raises TypeError
\* for an int b, at the first element; all() of nothing is True
QubitState_new(value) ==
    IF value.type = "str"
    THEN (IF QubitState_valid(value.bits) THEN Ret(value.bits)
          ELSE Raise("ValueError"))
    ELSE IF Len(value.bits) = 0 THEN Ret(value.bits)
    ELSE Raise("TypeError")

NewGen(variant, n) ==
    [variant |-> variant, n |-> n, k |-> 0, yielded |-> <<>>,
     raised |-> "none", done |-> FALSE]

InitAll ==
    /\ gen \in {NewGen(variant, n) : variant \in {"utils", "main"},
                                     n \in 0..MaxStatesN}
    /\ IdleVis
    /\ IdleQft
    /\ IdleCircuit
    /\ IdleSim
    /\ IdleUtil
    /\ pc = "all_states"

\* next(all_states(n)): the next element of the product, wrapped in a
\* QubitState; StopIteration after the last; an exception ends the generator
AllStatesNext ==
    /\ pc = "all_states"
    /\ ~gen.done
    /\ IF gen.k >= Pow2(gen.n)
       THEN gen' = [gen EXCEPT !.done = TRUE]
       ELSE LET r == QubitState_new(AllStatesArg(gen.variant, gen.n, gen.k))
            IN  IF r.raised # "none"
                THEN gen' = [gen EXCEPT !.raised = r.raised, !.done = TRUE]
                ELSE gen' = [gen EXCEPT !.k = gen.k + 1,
                                        !.yielded = Append(gen.yielded, r.value)]
    /\ UNCHANGED <<cvars, svars, uvars, is_running, quit_it, nkeys, n_qubits, qi, qj>>

NextAll == AllStatesNext

SpecAll == InitAll /\ [][NextAll]_vars

\* -------------------------------------------------------------- C12
\* C12: all_states(n) runs to its end without raising and has then yielded
\* exactly 2^n QubitStates, each of length n, every bit-string of length n
\* exactly once.
C12_AllStatesComplete ==
    gen.done =>
        /\ gen.raised = "none"
        /\ Len(gen.yielded) = Pow2(gen.n)
        /\ \A k \in 1..Len(gen.yielded) : Len(gen.yielded[k]) = gen.n
        /\ {gen.yielded[k] : k \in 1..Len(gen.yielded)} = BitStrings(gen.n)

\* ------------------------------------------------------------ qft.py
MaxQftN == 7       \* largest n_qubits given to create_manual_qft_circuit

\* a gate of the QFT circuit; denom is d for the phase angle 2*pi / d, else 0
QGate(name, qubits, denom) == [name |-> name, qubits |-> qubits, denom |-> denom]

\* line 37: the arguments of qc.swap in pass i of the last loop
swap_args(i, n) == <<1, n - 1 - i>>

InitQft ==
    /\ n_qubits \in 1..MaxQftN
    /\ qi = 0
    /\ qj = 0
    /\ qc = <<>>
    /\ pc = "qft_outer"
    /\ target = <<>>
    /\ iterations = <<>>
    /\ iters = 0
    /\ loopi = 0
    /\ IdleSim
    /\ IdleUtil
    /\ IdleGen
    /\ IdleVis

\* lines 29-30: qc.h(i)
QftH ==
    /\ pc = "qft_outer"
    /\ qi < n_qubits
    /\ qc' = Append(qc, QGate("h", <<qi>>, 0))
    /\ qj' = qi + 1
    /\ pc' = "qft_inner"
    /\ UNCHANGED <<target, iterations, iters, loopi, svars, uvars, gen,
                   is_running, quit_it, nkeys, n_qubits, qi>>

\* lines 32-34: qc.cp(2 * pi / 2 ** (j - i + 1), j, i)
QftCp ==
    /\ pc = "qft_inner"
    /\ qj < n_qubits
    /\ qc' = Append(qc, QGate("cp", <<qj, qi>>, Pow2(qj - qi + 1)))
    /\ qj' = qj + 1
    /\ UNCHANGED <<target, iterations, iters, loopi, pc, svars, uvars, gen,
                   is_running, quit_it, nkeys, n_qubits, qi>>

\* line 32 exhausted: back to line 29 with the next i
QftInnerEnd ==
    /\ pc = "qft_inner"
    /\ qj >= n_qubits
    /\ qi' = qi + 1
    /\ pc' = "qft_outer"
    /\ UNCHANGED <<target, iterations, iters, loopi, qc, svars, uvars, gen,
                   is_running, quit_it, nkeys, n_qubits, qj>>

\* line 29 exhausted: on to the loop of line 36
QftOuterEnd ==
    /\ pc = "qft_outer"
    /\ qi >= n_qubits
    /\ qi' = 0
    /\ pc' = "qft_swap"
    /\ UNCHANGED <<target, iterations, iters, loopi, qc, svars, uvars, gen,
                   is_running, quit_it, nkeys, n_qubits, qj>>

\* lines 36-37: qc.swap(...); the circuit refuses a gate given the same
\* qubit twice (CircuitError), which ends the function
QftSwap ==
    /\ pc = "qft_swap"
    /\ qi < n_qubits \div 2
    /\ LET qs == swap_args(qi, n_qubits)
       IN  IF qs[1] = qs[2]
           THEN /\ pc' = "qft_raised"
                /\ last' = Call("swap", qs, "CircuitError", <<>>, FALSE)
                /\ UNCHANGED <<qc, qi>>
           ELSE /\ qc' = Append(qc, QGate("swap", qs, 0))
                /\ qi' = qi + 1
                /\ UNCHANGED <<pc, last>>
    /\ UNCHANGED <<target, iterations, iters, loopi, svars, heap, dpg, pyproject,
                   gen, is_running, quit_it, nkeys, n_qubits, qj>>

\* line 39: return qc
QftReturn ==
    /\ pc = "qft_swap"
    /\ qi >= n_qubits \div 2
    /\ pc' = "qft_done"
    /\ UNCHANGED <<target, iterations, iters, loopi, qc, svars, uvars, xvars>>

NextQft == QftH \/ QftCp \/ QftInnerEnd \/ QftOuterEnd \/ QftSwap \/ QftReturn

SpecQft == InitQft /\ [][NextQft]_vars

\* -------------------------------------------------------------- C13
C13_Count(name) == Cardinality({k \in 1..Len(qc) : qc[k].name = name})

\* the swaps of the circuit, in order
C13_Swaps == SelectSeq(qc, LAMBDA g : g.name = "swap")

\* C13: create_manual_qft_circuit does not fail, and the circuit it returns
\* ends with the swaps of qubit i with qubit n-1-i for i = 0 .. floor(n/2)-1,
\* each on two distinct qubits, and holds n Hadamards, n(n-1)/2
\* controlled-phase gates and floor(n/2) swaps.
C13_SwapsReverseOrder ==
    /\ pc # "qft_raised"
    /\ pc = "qft_done" =>
          /\ C13_Swaps = [k \in 1..(n_qubits \div 2) |->
                             QGate("swap", <<k - 1, n_qubits - k>>, 0)]
          /\ \A k \in 1..Len(C13_Swaps) :
                C13_Swaps[k].qubits[1] # C13_Swaps[k].qubits[2]
          /\ C13_Count("h") = n_qubits
          /\ 2 * C13_Count("cp") = n_qubits * (n_qubits - 1)
          /\ C13_Count("swap") = n_qubits \div 2

\* ------------------------- abc/visualization.py, visualization.py
MaxEvents == 2     \* events dispatched to _on_key in one run
MaxEvolve == 3     \* iterations followed when the sequence is unbounded

\* abc/visualization.py 16: [str(b) for b in all_states(self.n)] with the
\* all_states of utils.py: the exception of the first element that fails
AllStatesRaised(variant, n) ==
    IF \E k \in 0..(Pow2(n) - 1) :
           QubitState_new(AllStatesArg(variant, n, k)).raised # "none"
    THEN QubitState_new(AllStatesArg(variant, n, 0)).raised
    ELSE "none"

\* the events matplotlib hands to a key_press_event callback
KeyEvents == {[kind |-> "KeyEvent", key |-> k] : k \in {"q", "a"}}

on_key_toggle(running, event) ==
    IF event.kind = "KeyEvent" /\ event.key = "q" THEN ~running ELSE running

\* visualization.py 37-39: the value of is_running after _on_key(event)
on_key(running, event) ==
    IF event.kind = "KeyEvent" /\ event.key = "q" THEN FALSE ELSE running

\* grover_evolver(target, iterations): whether it yields again after `it`
\* iterations; 0 iterations is the unbounded sequence (parse.py 27)
grover_evolver_has_next(n_iterations, it) ==
    n_iterations = 0 \/ it < n_iterations

\* before the constructor runs no object exists; is_running is shown TRUE,
\* the value line 21 gives it
InitVis ==
    /\ target \in {<<>>} \cup Targets
    /\ iters \in 0..MaxIter
    /\ loopi = 0
    /\ pc = "vis_new"
    /\ is_running = TRUE
    /\ quit_it = -1
    /\ nkeys = 0
    /\ iterations = <<>>
    /\ qc = <<>>
    /\ IdleSim
    /\ IdleUtil
    /\ IdleGen
    /\ IdleQft

\* GroverVisualizer(target, iterations=...): abc/visualization.py 13-25
VisConstruct ==
    /\ pc = "vis_new"
    /\ LET exc == AllStatesRaised("utils", Len(target))
       IN  IF exc # "none"
           THEN /\ pc' = "vis_raised"
                /\ last' = Call("GroverVisualizer", <<target>>, exc, <<>>, FALSE)
                /\ UNCHANGED is_running
           ELSE /\ pc' = "vis_next"
                /\ is_running' = TRUE
                /\ UNCHANGED last
    /\ UNCHANGED <<target, iterations, iters, loopi, qc, svars, heap, dpg,
                   pyproject, gen, quit_it, nkeys, n_qubits, qi, qj>>

\* update, line 44: the for statement asks the evolver for the next pair
UpdateNext ==
    /\ pc = "vis_next"
    /\ IF grover_evolver_has_next(iters, loopi)
       THEN /\ iters = 0 => loopi < MaxEvolve
            /\ loopi' = loopi + 1
            /\ pc' = "vis_check"
            /\ UNCHANGED last
       ELSE /\ pc' = "vis_returned"
            /\ last' = Call("update", <<>>, "none", <<"exhausted">>, FALSE)
            /\ UNCHANGED loopi
    /\ UNCHANGED <<target, iterations, iters, qc, svars, heap, dpg, pyproject,
                   xvars>>

\* update, lines 45-46: if not self.is_running: break
UpdateCheck ==
    /\ pc = "vis_check"
    /\ IF ~is_running
       THEN /\ pc' = "vis_returned"
            /\ last' = Call("update", <<>>, "none", <<"quit">>, FALSE)
       ELSE /\ pc' = "plot_amplitudes"
            /\ UNCHANGED last
    /\ UNCHANGED <<target, iterations, iters, loopi, qc, svars, heap, dpg,
                   pyproject, xvars>>

\* update, lines 48-57
PlotAmplitudes ==
    /\ pc = "plot_amplitudes"
    /\ pc' = "plot_circle"
    /\ UNCHANGED <<target, iterations, iters, loopi, qc, svars, uvars, xvars>>

\* update, lines 60-66
PlotCircle ==
    /\ pc = "plot_circle"
    /\ pc' = "plot_sine"
    /\ UNCHANGED <<target, iterations, iters, loopi, qc, svars, uvars, xvars>>

\* update, lines 69-71; line 72 then enters plt.pause
PlotSine ==
    /\ pc = "plot_sine"
    /\ pc' = "pause"
    /\ UNCHANGED <<target, iterations, iters, loopi, qc, svars, uvars, xvars>>

\* _on_key(event), lines 37-39, called by the event loop that plt.pause runs
OnKey(event) ==
    /\ pc = "pause"
    /\ nkeys < MaxEvents
    /\ is_running' = on_key(is_running, event)
    /\ quit_it' = IF quit_it = -1 /\ event.key = "q" THEN loopi ELSE quit_it
    /\ nkeys' = nkeys + 1
    /\ UNCHANGED <<cvars, svars, uvars, gen, n_qubits, qi, qj>>

\* update, line 72: plt.pause returns
PauseEnd ==
    /\ pc = "pause"
    /\ pc' = "vis_next"
    /\ UNCHANGED <<target, iterations, iters, loopi, qc, svars, uvars, xvars>>

NextVis ==
    \/ VisConstruct
    \/ UpdateNext
    \/ UpdateCheck
    \/ PlotAmplitudes
    \/ PlotCircle
    \/ PlotSine
    \/ \E event \in KeyEvents : OnKey(event)
    \/ PauseEnd

SpecVis == InitVis /\ [][NextVis]_vars

====
